---- MODULE Spec2Model ----
(***************************************************************************)
(* Linear runs of the notebooks of build-language-models-on-aws.           *)
(*                                                                         *)
(* A run executes the code cells of one notebook top to bottom.  A cell    *)
(* is one action.  Every call into the SageMaker SDK either returns or     *)
(* raises; no cell holds a try/except, so an exception ends the cell and   *)
(* the run (status = "raised").  Local files, the S3 objects, the          *)
(* SageMaker resources and the notebook's Python variables are the state;  *)
(* trace records the calls in the order they were issued.                  *)
(***************************************************************************)
EXTENDS Integers, Sequences, FiniteSets, TLC

VARIABLES
    nb,               \* the notebook that is run
    pc,               \* the cell to run next
    status,           \* "running", "raised" or "done"
    default_bucket,   \* sess.default_bucket() of the session
    props_file,       \* ./serving.properties
    archive_file,     \* ./mymodel.tar.gz or ./mycode.tar.gz
    s3,               \* the objects in S3
    image_uri, s3_code_prefix, code_artifact, endpoint_name,
    model, predictor, s3_new_model_path,   \* Python variables of the kernel
    endpoints, endpoint_configs, sm_models, \* SageMaker resources that exist
    hub,              \* the sizes of the splits of glue/sst2 on the hub
    raw_datasets,     \* the DatasetDict of the training notebook
    model_max_length, \* tokenizer.model_max_length
    block_size,
    expert_parallel_degree, hybrid_shard_degree, activation_loading_horizon,
    instance_count, processes_per_host,
    smp_estimator,    \* the PyTorch estimator of the training notebook
    pt_estimator,     \* the PyTorch estimator of the fine-tuning notebook
    job,              \* TrainingJobStatus of the job fit() started
    model_archive_path, \* what the fine-tuning notebook read from describe()
    model_type, model_size, hyperparameters,
    training_dataset_location, validation_dataset_location,
    data_channels,    \* Python variables of the training notebook
    exception,        \* the class of the exception a configuration cell raised
    trace,            \* the calls issued so far, in order
    examples,         \* the batch group_texts is called with
    result            \* what group_texts returned, or that it raised

deployVars == << default_bucket, props_file, archive_file, s3, image_uri,
                 s3_code_prefix, code_artifact, endpoint_name, model,
                 predictor, s3_new_model_path, endpoints, endpoint_configs,
                 sm_models >>

coreTrainVars == << hub, raw_datasets, model_max_length, block_size,
                    expert_parallel_degree, hybrid_shard_degree,
                    activation_loading_horizon, instance_count,
                    processes_per_host, smp_estimator, pt_estimator, job,
                    model_archive_path >>

configVars == << model_type, model_size, hyperparameters,
                 training_dataset_location, validation_dataset_location,
                 data_channels, exception >>

trainVars == << hub, raw_datasets, model_max_length, block_size,
                expert_parallel_degree, hybrid_shard_degree,
                activation_loading_horizon, instance_count,
                processes_per_host, smp_estimator, pt_estimator, job,
                model_archive_path, configVars >>

groupVars == << examples, result >>

----------------------------------------------------------------------------
(* Bounds of the model *)

\* group_texts: the examples of a batch, the tokens of an example, block_size
MaxExamples == 3
MaxTokens == 3
MaxBlockSize == 3

\* name_from_base appends a timestamp: the number of different timestamps
MaxStamp == 2

\* the number of examples of the train split of the dataset on the hub
MaxTrain == 16

\* glue/sst2 on the hub has a train, a validation and a test split
HubDatasets ==
    { [split \in {"train", "validation", "test"} |->
          IF split = "train" THEN n ELSE 1] : n \in 0..MaxTrain }

\* the default buckets a session may have
Buckets == {"sagemaker-bucket-a", "sagemaker-bucket-b"}

----------------------------------------------------------------------------
(* Values *)

NoUri == [bucket |-> "", key_prefix |-> "", name |-> ""]
NoName == [base |-> "", stamp |-> 0]
NoFile == [exists |-> FALSE, lines |-> << >>]
NoArchive == [exists |-> FALSE, name |-> "", has_props |-> FALSE, lines |-> << >>]
NoModel == [defined |-> FALSE, image_uri |-> "", model_data |-> NoUri]

\* one entry of trace: the call, the endpoint, the S3 URI and the lines of
\* serving.properties it is about, and whether it returned (ok) or raised
Call(op, ep, uri, lines, ok) ==
    [op |-> op, ep |-> ep, uri |-> uri, lines |-> lines, ok |-> ok]

\* sess.upload_data(path, bucket, key_prefix) returns s3://bucket/key_prefix/name
S3Uri(b, p, n) == [bucket |-> b, key_prefix |-> p, name |-> n]

\* the text of an S3 URI, in parts: s3://bucket/key_prefix/name
S3Path(uri) == << "s3://", uri.bucket, "/", uri.key_prefix, "/", uri.name >>

\* the S3 URI a command is given as text
ParseS3Path(path) == S3Uri(path[2], path[4], path[6])

\* sagemaker.utils.name_from_base(base): base and a timestamp
NameFromBase(base, t) == [base |-> base, stamp |-> t]

----------------------------------------------------------------------------
(* The serving.properties files the notebooks write: key, value pairs.  A  *)
(* value is the sequence of the parts of the string (an f-string has the   *)
(* substituted variable as a part).                                        *)

MixtralServingProperties ==
    << << "engine", << "MPI" >> >>,
       << "option.model_id", << "mistralai/Mixtral-8x7B-v0.1" >> >>,
       << "option.tensor_parallel_degree", << "8" >> >>,
       << "option.max_rolling_batch_size", << "32" >> >>,
       << "option.rolling_batch", << "lmi-dist" >> >> >>

\* file_content with the option.batch_size line left out
file_content_without_batch_size(path) ==
    << << "engine", << "Python" >> >>,
       << "option.entryPoint", << "djl_python.transformers_neuronx" >> >>,
       << "option.model_id", path >>,
       << "option.neuron_optimize_level", << "1" >> >>,
       << "option.tensor_parallel_degree", << "2" >> >>,
       << "option.load_in_8bit", << "false" >> >>,
       << "option.n_positions", << "512" >> >>,
       << "option.rolling_batch", << "auto" >> >>,
       << "option.dtype", << "fp16" >> >> >>

\* file_content = f"""engine=Python ... option.model_id={s3_new_model_path} ..."""
file_content(path) ==
    << << "engine", << "Python" >> >>,
       << "option.entryPoint", << "djl_python.transformers_neuronx" >> >>,
       << "option.model_id", path >>,
       << "option.batch_size", << "1" >> >>,
       << "option.neuron_optimize_level", << "1" >> >>,
       << "option.tensor_parallel_degree", << "2" >> >>,
       << "option.load_in_8bit", << "false" >> >>,
       << "option.n_positions", << "512" >> >>,
       << "option.rolling_batch", << "auto" >> >>,
       << "option.dtype", << "fp16" >> >> >>

TinyLlamaOriginalServingProperties ==
    << << "engine", << "Python" >> >>,
       << "option.entryPoint", << "djl_python.transformers_neuronx" >> >>,
       << "option.model_id", << "TinyLlama/TinyLlama-1.1B-Chat-v0.4" >> >>,
       << "option.batch_size", << "1" >> >>,
       << "option.neuron_optimize_level", << "1" >> >>,
       << "option.tensor_parallel_degree", << "2" >> >>,
       << "option.load_in_8bit", << "false" >> >>,
       << "option.n_positions", << "512" >> >>,
       << "option.rolling_batch", << "auto" >> >>,
       << "option.dtype", << "fp16" >> >> >>

----------------------------------------------------------------------------
(* The code cells of the notebooks, in the order of the file *)

MixtralDeployCells ==
    << "setup", "writefile", "package", "image_uri", "upload", "deploy",
       "predict", "cleanup" >>

\* the second deployment with its deploy cell run before its upload cell
TinyLlamaInferenceCellsDeployBeforeUpload ==
    << "setup", "image_uri", "paths", "s3cp", "write_props", "package",
       "upload", "endpoint_name", "deploy", "predictor", "predict_negative",
       "predict_positive", "cleanup",
       "image_uri2", "writefile2", "package2", "endpoint_name2", "deploy2",
       "upload2", "predictor2", "predict2", "cleanup2" >>

\* the cells with the copy of the model artifacts after the write of
\* serving.properties
TinyLlamaInferenceCellsCopyAfterWrite ==
    << "setup", "image_uri", "paths", "write_props", "s3cp", "package",
       "upload", "endpoint_name", "deploy", "predictor", "predict_negative",
       "predict_positive", "cleanup",
       "image_uri2", "writefile2", "package2", "upload2", "endpoint_name2",
       "deploy2", "predictor2", "predict2", "cleanup2" >>

TinyLlamaInferenceCells ==
    << "setup", "image_uri", "paths", "s3cp", "write_props", "package",
       "upload", "endpoint_name", "deploy", "predictor", "predict_negative",
       "predict_positive", "cleanup",
       "image_uri2", "writefile2", "package2", "upload2", "endpoint_name2",
       "deploy2", "predictor2", "predict2", "cleanup2" >>

MixtralTrainCells ==
    << "setup", "model_type", "load_data", "split", "tokenizer", "tokenize",
       "prepare_datasets", "data_channels", "degrees", "hyperparameters",
       "model_config", "instances", "estimator", "fit" >>

TinyLlamaFinetuneCells ==
    << "setup", "estimator", "fit", "model_archive_path" >>

Cells(n) ==
    CASE n = "mixtral_deploy" -> MixtralDeployCells
      [] n = "tinyllama_inference" -> TinyLlamaInferenceCells
      [] n = "mixtral_train" -> MixtralTrainCells
      [] n = "tinyllama_finetune" -> TinyLlamaFinetuneCells

Notebooks ==
    {"mixtral_deploy", "tinyllama_inference", "mixtral_train",
     "tinyllama_finetune"}

\* the place of a cell in its notebook
CellIndex(n, c) == CHOOSE i \in 1..Len(Cells(n)) : Cells(n)[i] = c

\* the run of notebook n has finished cell c
Ran(n, c) == nb = n /\ pc > CellIndex(n, c)

\* the cell pc stands at
Cell == Cells(nb)[pc]

At(n, c) == nb = n /\ status = "running" /\ Cell = c

\* a cell of a deployment notebook: the kernel holds no training variables
InDeploy(n, c) == At(n, c) /\ UNCHANGED << trainVars, groupVars >>

\* a cell of a training notebook: the kernel holds no deployment variables
InTrain(n, c) == At(n, c) /\ UNCHANGED << deployVars, groupVars >>

\* the cell finished without an exception: the run goes on to the next cell
Advance ==
    /\ pc' = pc + 1
    /\ status' = IF pc + 1 > Len(Cells(nb)) THEN "done" ELSE "running"
    /\ nb' = nb

\* an exception left the cell: a linear run stops there
Raise ==
    /\ pc' = pc
    /\ status' = "raised"
    /\ nb' = nb

Finish(ok) == IF ok THEN Advance ELSE Raise

----------------------------------------------------------------------------
(* What the SDK calls do to S3 and to the SageMaker resources *)

\* upload_data puts the archive at the URI, replacing what was there
Uploaded(objects, uri, archive) ==
    { o \in objects : o.uri # uri } \cup { [uri |-> uri, archive |-> archive] }

\* the object stored at a URI, NoArchive when there is none
ObjectAt(objects, uri) ==
    IF \E o \in objects : o.uri = uri
    THEN (CHOOSE o \in objects : o.uri = uri).archive
    ELSE NoArchive

\* sagemaker.Model(image_uri=image_uri, model_data=code_artifact, role=role)
Model(img, data) == [defined |-> TRUE, image_uri |-> img, model_data |-> data]

\* %%sh: mkdir d; mv serving.properties d/; tar czvf d.tar.gz d/; rm -rf d
\* The archive holds the directory, with serving.properties when mv found it.
Tar(tarname, file) ==
    [exists |-> TRUE, name |-> tarname, has_props |-> file.exists,
     lines |-> file.lines]

----------------------------------------------------------------------------
(* Cells shared by the two deployment notebooks *)

\* role = sagemaker.get_execution_role(); sess = sagemaker.session.Session()
SetupCell ==
    \E ok \in BOOLEAN :
        /\ trace' = Append(trace, Call("Session", NoName, NoUri, << >>, ok))
        /\ Finish(ok)
        /\ UNCHANGED deployVars

\* image_uri = image_uris.retrieve(framework=..., region=..., version=...)
ImageUriCell(framework_version) ==
    \E ok \in BOOLEAN :
        /\ trace' = Append(trace, Call("image_uris.retrieve", NoName, NoUri, << >>, ok))
        /\ image_uri' = IF ok THEN framework_version ELSE image_uri
        /\ Finish(ok)
        /\ UNCHANGED << default_bucket, props_file, archive_file, s3,
                        s3_code_prefix, code_artifact, endpoint_name, model,
                        predictor, s3_new_model_path, endpoints,
                        endpoint_configs, sm_models >>

\* %%writefile serving.properties, or open("serving.properties","w").write
WritePropsCell(lines) ==
    /\ props_file' = [exists |-> TRUE, lines |-> lines]
    /\ trace' = Append(trace, Call("write", NoName, NoUri, lines, TRUE))
    /\ Advance
    /\ UNCHANGED << default_bucket, archive_file, s3, image_uri,
                    s3_code_prefix, code_artifact, endpoint_name, model,
                    predictor, s3_new_model_path, endpoints,
                    endpoint_configs, sm_models >>

\* the %%sh packaging cell; the exit status is that of rm -rf, so the cell
\* does not raise
PackageCell(tarname) ==
    /\ archive_file' = Tar(tarname, props_file)
    /\ props_file' = NoFile
    /\ trace' = Append(trace,
                  Call("tar", NoName, NoUri, props_file.lines, TRUE))
    /\ Advance
    /\ UNCHANGED << default_bucket, s3, image_uri, s3_code_prefix,
                    code_artifact, endpoint_name, model, predictor,
                    s3_new_model_path, endpoints, endpoint_configs, sm_models >>

\* s3_code_prefix = prefix; bucket = sess.default_bucket()
\* code_artifact = sess.upload_data(tarname, bucket, s3_code_prefix)
\* and, when the cell goes on to it, model = Model(..., model_data=code_artifact)
UploadCell(prefix, tarname, makes_model) ==
    \E ok \in BOOLEAN :
        LET uri == S3Uri(default_bucket, prefix, tarname) IN
        /\ ok => archive_file.exists /\ archive_file.name = tarname
        /\ s3_code_prefix' = prefix
        /\ s3' = IF ok THEN Uploaded(s3, uri, archive_file) ELSE s3
        /\ code_artifact' = IF ok THEN uri ELSE code_artifact
        /\ model' = IF ok /\ makes_model THEN Model(image_uri, uri) ELSE model
        /\ trace' =
             LET t1 == Append(trace,
                         Call("upload_data", NoName, uri, archive_file.lines, ok))
             IN  IF ok /\ makes_model
                 THEN Append(t1, Call("Model", NoName, uri, << >>, TRUE))
                 ELSE t1
        /\ Finish(ok)
        /\ UNCHANGED << default_bucket, props_file, archive_file, image_uri,
                        endpoint_name, predictor, s3_new_model_path,
                        endpoints, endpoint_configs, sm_models >>

\* endpoint_name = sagemaker.utils.name_from_base(base)
EndpointNameCell(base) ==
    \E t \in 1..MaxStamp :
        /\ endpoint_name' = NameFromBase(base, t)
        /\ trace' = trace
        /\ Advance
        /\ UNCHANGED << default_bucket, props_file, archive_file, s3,
                        image_uri, s3_code_prefix, code_artifact, model,
                        predictor, s3_new_model_path, endpoints,
                        endpoint_configs, sm_models >>

\* model.deploy(..., endpoint_name=name) on model m: SageMaker creates the
\* model, the endpoint configuration and the endpoint.  When deploy raises
\* (for one, the health check timed out) the resources may have been created.
Deployed(m, name, ok, created) ==
    /\ ok => name \notin endpoints
    /\ ok => created
    /\ sm_models' = IF created THEN sm_models \cup {m} ELSE sm_models
    /\ endpoint_configs' =
         IF created THEN endpoint_configs \cup {name} ELSE endpoint_configs
    /\ endpoints' = IF created THEN endpoints \cup {name} ELSE endpoints

\* a predictor made once and kept: the cell leaves one already made alone
PredictorCellKeepsFirst ==
    /\ predictor' = IF predictor = NoName THEN endpoint_name ELSE predictor
    /\ trace' = trace
    /\ Advance
    /\ UNCHANGED << default_bucket, props_file, archive_file, s3, image_uri,
                    s3_code_prefix, code_artifact, endpoint_name, model,
                    s3_new_model_path, endpoints, endpoint_configs, sm_models >>

\* predictor = sagemaker.Predictor(endpoint_name=endpoint_name, ...)
PredictorCell ==
    /\ predictor' = endpoint_name
    /\ trace' = trace
    /\ Advance
    /\ UNCHANGED << default_bucket, props_file, archive_file, s3, image_uri,
                    s3_code_prefix, code_artifact, endpoint_name, model,
                    s3_new_model_path, endpoints, endpoint_configs, sm_models >>

\* predict in a retry loop: a call that raised is issued once more
PredictCellRetry ==
    \E ok \in BOOLEAN, again \in BOOLEAN :
        /\ ok => predictor \in endpoints
        /\ again => predictor \in endpoints
        /\ trace' =
             IF ok
             THEN Append(trace, Call("predict", predictor, NoUri, << >>, TRUE))
             ELSE Append(Append(trace,
                    Call("predict", predictor, NoUri, << >>, FALSE)),
                    Call("predict", predictor, NoUri, << >>, again))
        /\ Finish(ok \/ again)
        /\ UNCHANGED deployVars

\* predictor.predict({...}): answered only by an endpoint that exists
PredictCell ==
    \E ok \in BOOLEAN :
        /\ ok => predictor \in endpoints
        /\ trace' = Append(trace, Call("predict", predictor, NoUri, << >>, ok))
        /\ Finish(ok)
        /\ UNCHANGED deployVars

\* a NameError, or any exception raised before a call is issued
NameError ==
    /\ Raise
    /\ trace' = trace
    /\ UNCHANGED deployVars

----------------------------------------------------------------------------
(* mixtral-8x7b-lmidist-deploy.ipynb *)

Mx_Setup == InDeploy("mixtral_deploy", "setup") /\ SetupCell

Mx_WriteFile ==
    InDeploy("mixtral_deploy", "writefile") /\ WritePropsCell(MixtralServingProperties)

Mx_Package == InDeploy("mixtral_deploy", "package") /\ PackageCell("mymodel.tar.gz")

Mx_ImageUri ==
    InDeploy("mixtral_deploy", "image_uri") /\ ImageUriCell("djl-deepspeed:0.26.0")

Mx_s3_code_prefix == "large-model-lmi-dist/code"

Mx_Upload ==
    /\ InDeploy("mixtral_deploy", "upload")
    /\ UploadCell(Mx_s3_code_prefix, "mymodel.tar.gz", TRUE)

\* endpoint_name = name_from_base("lmi-model"); model.deploy(...);
\* predictor = sagemaker.Predictor(endpoint_name=endpoint_name, ...)
Mx_Deploy ==
    /\ InDeploy("mixtral_deploy", "deploy")
    /\ IF ~model.defined THEN NameError ELSE
       \E t \in 1..MaxStamp, ok \in BOOLEAN, created \in BOOLEAN :
         LET name == NameFromBase("lmi-model", t) IN
         /\ endpoint_name' = name
         /\ Deployed(model, name, ok, created)
         /\ predictor' = IF ok THEN name ELSE predictor
         /\ trace' = Append(trace, Call("deploy", name, model.model_data, << >>, ok))
         /\ Finish(ok)
         /\ UNCHANGED << default_bucket, props_file, archive_file, s3,
                         image_uri, s3_code_prefix, code_artifact, model,
                         s3_new_model_path >>

Mx_Predict == InDeploy("mixtral_deploy", "predict") /\ PredictCell

\* predictor.delete_endpoint(): deletes the endpoint configuration, then the
\* endpoint; when it raises, the configuration may be gone already
Mx_Cleanup ==
    /\ InDeploy("mixtral_deploy", "cleanup")
    /\ \E ok \in BOOLEAN, config_deleted \in BOOLEAN :
         /\ ok => config_deleted
         /\ endpoint_configs' =
              IF config_deleted THEN endpoint_configs \ {predictor}
              ELSE endpoint_configs
         /\ endpoints' = IF ok THEN endpoints \ {predictor} ELSE endpoints
         /\ trace' = Append(trace, Call("delete_endpoint", predictor, NoUri, << >>, ok))
         /\ Finish(ok)
         /\ UNCHANGED << default_bucket, props_file, archive_file, s3,
                         image_uri, s3_code_prefix, code_artifact,
                         endpoint_name, model, predictor, s3_new_model_path,
                         sm_models >>

MixtralDeployNext ==
    \/ Mx_Setup \/ Mx_WriteFile \/ Mx_Package \/ Mx_ImageUri \/ Mx_Upload
    \/ Mx_Deploy \/ Mx_Predict \/ Mx_Cleanup

----------------------------------------------------------------------------
(* Inference-TinyLlama-1.1B.ipynb *)

Tl_Setup == InDeploy("tinyllama_inference", "setup") /\ SetupCell

Tl_ImageUri ==
    InDeploy("tinyllama_inference", "image_uri") /\ ImageUriCell("djl-neuronx:0.28.0")

\* f"s3://{sess.default_bucket()}/neuron_events2024/trained_model"
NewModelPath(bucket) ==
    << "s3://", bucket, "/", "neuron_events2024", "/", "trained_model" >>

\* s3_new_model_path = f"s3://{sess.default_bucket()}/neuron_events2024/trained_model"
Tl_Paths ==
    /\ InDeploy("tinyllama_inference", "paths")
    /\ s3_new_model_path' = NewModelPath(default_bucket)
    /\ trace' = trace
    /\ Advance
    /\ UNCHANGED << default_bucket, props_file, archive_file, s3, image_uri,
                    s3_code_prefix, code_artifact, endpoint_name, model,
                    predictor, endpoints, endpoint_configs, sm_models >>

\* ! aws s3 cp {s3_orig_model_path} ./tmp_model/ --recursive
\* ! aws s3 cp ./tmp_model/ {s3_new_model_path} --recursive
\* Shell commands: a failed copy raises nothing and the run goes on.
Tl_S3Copy ==
    /\ InDeploy("tinyllama_inference", "s3cp")
    /\ \E copied \in BOOLEAN :
         LET dest == ParseS3Path(s3_new_model_path) IN
         /\ s3' = IF copied THEN Uploaded(s3, dest, NoArchive) ELSE s3
         /\ trace' = Append(trace, Call("s3_cp", NoName, dest, << >>, TRUE))
    /\ Advance
    /\ UNCHANGED << default_bucket, props_file, archive_file, image_uri,
                    s3_code_prefix, code_artifact, endpoint_name, model,
                    predictor, s3_new_model_path, endpoints,
                    endpoint_configs, sm_models >>

Tl_WriteProps ==
    /\ InDeploy("tinyllama_inference", "write_props")
    /\ WritePropsCell(file_content(s3_new_model_path))

Tl_Package == InDeploy("tinyllama_inference", "package") /\ PackageCell("mycode.tar.gz")

Tl_Upload ==
    /\ InDeploy("tinyllama_inference", "upload")
    /\ UploadCell("large-model-lmi/code", "mycode.tar.gz", FALSE)

Tl_EndpointName ==
    /\ InDeploy("tinyllama_inference", "endpoint_name")
    /\ EndpointNameCell("tinyllama-finetuned-model2")

\* model = Model(image_uri=image_uri, model_data=code_artifact, ...)
\* model.deploy(..., endpoint_name=endpoint_name)
TinyLlamaDeployCell ==
    IF code_artifact = NoUri \/ endpoint_name = NoName THEN NameError ELSE
    \E ok \in BOOLEAN, created \in BOOLEAN :
        LET m == Model(image_uri, code_artifact) IN
        /\ model' = m
        /\ Deployed(m, endpoint_name, ok, created)
        /\ trace' = Append(Append(trace,
                      Call("Model", NoName, code_artifact, << >>, TRUE)),
                      Call("deploy", endpoint_name, m.model_data, << >>, ok))
        /\ Finish(ok)
        /\ UNCHANGED << default_bucket, props_file, archive_file, s3,
                        image_uri, s3_code_prefix, code_artifact,
                        endpoint_name, predictor, s3_new_model_path >>

Tl_Deploy == InDeploy("tinyllama_inference", "deploy") /\ TinyLlamaDeployCell

Tl_Predictor == InDeploy("tinyllama_inference", "predictor") /\ PredictorCell

Tl_PredictNegative == InDeploy("tinyllama_inference", "predict_negative") /\ PredictCell

Tl_PredictPositive == InDeploy("tinyllama_inference", "predict_positive") /\ PredictCell

\* #sess.delete_endpoint(endpoint_name)
\* sess.delete_endpoint_config(endpoint_name)
\* model.delete_model()
Tl_Cleanup ==
    /\ InDeploy("tinyllama_inference", "cleanup")
    /\ \E failing \in {"none", "delete_endpoint_config", "delete_model"} :
         LET config_ok == failing # "delete_endpoint_config"
             model_ok == failing = "none"
             t1 == Append(trace,
                     Call("delete_endpoint_config", endpoint_name, NoUri, << >>, config_ok))
         IN
         /\ endpoint_configs' =
              IF config_ok THEN endpoint_configs \ {endpoint_name}
              ELSE endpoint_configs
         /\ sm_models' = IF model_ok THEN sm_models \ {model} ELSE sm_models
         /\ trace' =
              IF config_ok
              THEN Append(t1, Call("delete_model", NoName, model.model_data, << >>, model_ok))
              ELSE t1
         /\ Finish(model_ok)
    /\ UNCHANGED << default_bucket, props_file, archive_file, s3, image_uri,
                    s3_code_prefix, code_artifact, endpoint_name, model,
                    predictor, s3_new_model_path, endpoints >>

Tl_ImageUri2 ==
    InDeploy("tinyllama_inference", "image_uri2") /\ ImageUriCell("djl-neuronx:0.24.0")

Tl_WriteFile2 ==
    /\ InDeploy("tinyllama_inference", "writefile2")
    /\ WritePropsCell(TinyLlamaOriginalServingProperties)

Tl_Package2 == InDeploy("tinyllama_inference", "package2") /\ PackageCell("mycode.tar.gz")

Tl_Upload2 ==
    /\ InDeploy("tinyllama_inference", "upload2")
    /\ UploadCell("tiny_llama/large-model-lmi/code", "mycode.tar.gz", FALSE)

Tl_EndpointName2 ==
    /\ InDeploy("tinyllama_inference", "endpoint_name2")
    /\ EndpointNameCell("tinyllama-original-model")

Tl_Deploy2 == InDeploy("tinyllama_inference", "deploy2") /\ TinyLlamaDeployCell

Tl_Predictor2 == InDeploy("tinyllama_inference", "predictor2") /\ PredictorCell

Tl_Predict2 == InDeploy("tinyllama_inference", "predict2") /\ PredictCell

\* sess.delete_endpoint(endpoint_name)
\* sess.delete_endpoint_config(endpoint_name)
\* model.delete_model()
Tl_Cleanup2 ==
    /\ InDeploy("tinyllama_inference", "cleanup2")
    /\ \E failing \in {"none", "delete_endpoint", "delete_endpoint_config",
                       "delete_model"} :
         LET endpoint_ok == failing # "delete_endpoint"
             config_ok == endpoint_ok /\ failing # "delete_endpoint_config"
             model_ok == failing = "none"
             t1 == Append(trace,
                     Call("delete_endpoint", endpoint_name, NoUri, << >>, endpoint_ok))
             t2 == IF endpoint_ok
                   THEN Append(t1, Call("delete_endpoint_config", endpoint_name,
                                        NoUri, << >>, config_ok))
                   ELSE t1
         IN
         /\ endpoints' = IF endpoint_ok THEN endpoints \ {endpoint_name} ELSE endpoints
         /\ endpoint_configs' =
              IF config_ok THEN endpoint_configs \ {endpoint_name}
              ELSE endpoint_configs
         /\ sm_models' = IF model_ok THEN sm_models \ {model} ELSE sm_models
         /\ trace' =
              IF config_ok
              THEN Append(t2, Call("delete_model", NoName, model.model_data, << >>, model_ok))
              ELSE t2
         /\ Finish(model_ok)
    /\ UNCHANGED << default_bucket, props_file, archive_file, s3, image_uri,
                    s3_code_prefix, code_artifact, endpoint_name, model,
                    predictor, s3_new_model_path >>

TinyLlamaInferenceNext ==
    \/ Tl_Setup \/ Tl_ImageUri \/ Tl_Paths \/ Tl_S3Copy \/ Tl_WriteProps
    \/ Tl_Package \/ Tl_Upload \/ Tl_EndpointName \/ Tl_Deploy \/ Tl_Predictor
    \/ Tl_PredictNegative \/ Tl_PredictPositive \/ Tl_Cleanup
    \/ Tl_ImageUri2 \/ Tl_WriteFile2 \/ Tl_Package2 \/ Tl_Upload2
    \/ Tl_EndpointName2 \/ Tl_Deploy2 \/ Tl_Predictor2 \/ Tl_Predict2
    \/ Tl_Cleanup2

----------------------------------------------------------------------------
(* Training jobs *)

\* estimator.fit() is called with wait left at its default, True: the call
\* creates the training job and returns when the job has ended.  The SDK
\* raises when the job ended Failed and only logs a warning when it ended
\* Stopped (the job ran into max_run, or was stopped); the call can also
\* raise before the job exists and while the job is still running.
FitOutcomes == {"NotStarted", "Interrupted", "Completed", "Stopped", "Failed"}

FitReturns(outcome) == outcome \in {"Completed", "Stopped"}

JobAfterFit(outcome) ==
    CASE outcome = "NotStarted" -> "none"
      [] outcome = "Interrupted" -> "InProgress"
      [] OTHER -> outcome

\* a job that fit() left running ends, on its own
TrainingJobEnds ==
    /\ job = "InProgress"
    /\ job' \in {"Completed", "Stopped", "Failed"}
    /\ UNCHANGED << nb, pc, status, deployVars, configVars, hub,
                    raw_datasets,
                    model_max_length, block_size, expert_parallel_degree,
                    hybrid_shard_degree, activation_loading_horizon,
                    instance_count, processes_per_host, smp_estimator,
                    pt_estimator, model_archive_path, trace, groupVars >>

----------------------------------------------------------------------------
(* smp-train-mixtral-fsdp-ep.ipynb *)

\* model_size before the model-config cell assigns it
NoSize == [is_int |-> FALSE, text |-> ""]

\* training_dataset_location, validation_dataset_location: not assigned yet,
\* None, or f"s3://{default_bucket}/dataset/train/"
NoLocation == [assigned |-> FALSE, is_none |-> TRUE, uri |-> NoUri]
None == [assigned |-> TRUE, is_none |-> TRUE, uri |-> NoUri]
Location(uri) == [assigned |-> TRUE, is_none |-> FALSE, uri |-> uri]

\* d.update(e)
Update(d, e) ==
    [k \in DOMAIN d \cup DOMAIN e |-> IF k \in DOMAIN e THEN e[k] ELSE d[k]]

\* the values the notebook's cells assign
InstanceCount == 8
ProcessesPerHost == 8
ExpertParallelDegree == 2

\* hybrid_shard_degree set to the number of GPUs, beyond its range
HybridShardDegreeWorldSize == ProcessesPerHost * InstanceCount

HybridShardDegree == 32
ActivationLoadingHorizon == 2
BlockSizeCap == 2048

\* validation_percentage = "10%"
ValidationPercentage == 10

\* datasets rounds a percent boundary to the closest example:
\* int(round(boundary * num_examples / 100.0)), halves to the even number
PctToAbsClosest(boundary, num_examples) ==
    LET q == (boundary * num_examples) \div 100
        r == (boundary * num_examples) % 100
    IN  IF 2 * r < 100 THEN q
        ELSE IF 2 * r > 100 THEN q + 1
        ELSE IF q % 2 = 0 THEN q ELSE q + 1

\* the examples of a split of the dataset on the hub, in order
HubSplit(split) == [i \in 1..hub[split] |-> << split, i >>]

\* load_dataset(name, config, split=f"train[:{validation_percentage}]")
TrainUpTo(pct) == SubSeq(HubSplit("train"), 1, PctToAbsClosest(pct, hub["train"]))

\* the train split loaded whole, the validation examples still in it
TrainFromStart(pct) == HubSplit("train")

\* load_dataset(name, config, split=f"train[{validation_percentage}:]")
TrainFrom(pct) ==
    SubSeq(HubSplit("train"), PctToAbsClosest(pct, hub["train"]) + 1, hub["train"])

\* del d[key]
Del(d, key) == [k \in DOMAIN d \ {key} |-> d[k]]

\* d[key] = value
Put(d, key, value) ==
    [k \in DOMAIN d \cup {key} |-> IF k = key THEN value ELSE d[k]]

\* a cell that only calls the SDK and changes nothing the model holds
Tr_Setup ==
    /\ InTrain("mixtral_train", "setup")
    /\ \E ok \in BOOLEAN :
         /\ trace' = Append(trace, Call("Session", NoName, NoUri, << >>, ok))
         /\ Finish(ok)
    /\ UNCHANGED trainVars

\* the model the notebook trains: the cell is there for the user to choose,
\* and ships with "mixtral"
ModelTypes == {"mixtral", "llama"}

\* model_type = "mixtral"
Tr_ModelType ==
    /\ InTrain("mixtral_train", "model_type")
    /\ \E chosen \in ModelTypes : model_type' = chosen
    /\ trace' = trace
    /\ Advance
    /\ UNCHANGED << coreTrainVars, model_size, hyperparameters,
                    training_dataset_location, validation_dataset_location,
                    data_channels, exception >>

\* hyperparameters = {"cache_dir": "tmp", "dataset_config_name": "sst2",
\*     "dataset_name": "glue", "do_train": True, "do_eval": True}
\* do_train and do_eval are the flags the later cells branch on
DataHyperparameters(do_train, do_eval) ==
    [cache_dir |-> "tmp", dataset_config_name |-> "sst2",
     dataset_name |-> "glue", do_train |-> do_train, do_eval |-> do_eval]

\* hyperparameters = {...}
\* raw_datasets = load_dataset("glue", "sst2"); del raw_datasets["validation"]
Tr_LoadData ==
    /\ InTrain("mixtral_train", "load_data")
    /\ \E do_train \in BOOLEAN, do_eval \in BOOLEAN :
         hyperparameters' = DataHyperparameters(do_train, do_eval)
    /\ \E ok \in BOOLEAN :
         /\ raw_datasets' =
              IF ok
              THEN Del([split \in DOMAIN hub |-> HubSplit(split)], "validation")
              ELSE raw_datasets
         /\ trace' = Append(trace, Call("load_dataset", NoName, NoUri, << >>, ok))
         /\ Finish(ok)
    /\ UNCHANGED << model_type, model_size, training_dataset_location,
                    validation_dataset_location, data_channels, exception >>
    /\ UNCHANGED << hub, model_max_length, block_size, expert_parallel_degree,
                    hybrid_shard_degree, activation_loading_horizon,
                    instance_count, processes_per_host, smp_estimator,
                    pt_estimator, job, model_archive_path >>

\* if "validation" not in raw_datasets.keys():
\*     raw_datasets["validation"] = load_dataset(..., split="train[:10%]")
\*     raw_datasets["train"] = load_dataset(..., split="train[10%:]")
SplitCell ==
    IF "validation" \in DOMAIN raw_datasets
    THEN /\ raw_datasets' = raw_datasets
         /\ trace' = trace
         /\ Advance
    ELSE \E failing \in {"none", "validation", "train"} :
         LET with_validation ==
                 Put(raw_datasets, "validation", TrainUpTo(ValidationPercentage))
             t1 == Append(trace, Call("load_dataset", NoName, NoUri, << >>,
                                      failing # "validation"))
         IN
         /\ raw_datasets' =
              CASE failing = "validation" -> raw_datasets
                [] failing = "train" -> with_validation
                [] OTHER -> Put(with_validation, "train",
                                TrainFrom(ValidationPercentage))
         /\ trace' =
              IF failing = "validation" THEN t1
              ELSE Append(t1, Call("load_dataset", NoName, NoUri, << >>,
                                   failing = "none"))
         /\ Finish(failing = "none")

Tr_Split ==
    /\ InTrain("mixtral_train", "split")
    /\ SplitCell
    /\ UNCHANGED << configVars, hub, model_max_length, block_size, expert_parallel_degree,
                    hybrid_shard_degree, activation_loading_horizon,
                    instance_count, processes_per_host, smp_estimator,
                    pt_estimator, job, model_archive_path >>

\* the model_max_length a tokenizer may declare
ModelMaxLengths == {1024, 2048, 4096}

\* tokenizer = AutoTokenizer.from_pretrained("mistralai/Mixtral-8x7B-v0.1", ...)
Tr_Tokenizer ==
    /\ InTrain("mixtral_train", "tokenizer")
    /\ \E ok \in BOOLEAN, mml \in ModelMaxLengths :
         /\ model_max_length' = IF ok THEN mml ELSE model_max_length
         /\ trace' = Append(trace, Call("from_pretrained", NoName, NoUri, << >>, ok))
         /\ Finish(ok)
    /\ UNCHANGED << configVars, hub, raw_datasets, block_size, expert_parallel_degree,
                    hybrid_shard_degree, activation_loading_horizon,
                    instance_count, processes_per_host, smp_estimator,
                    pt_estimator, job, model_archive_path >>

\* block_size = tokenizer.model_max_length
\* if block_size > 2048: block_size = 2048
\* else:
\*     if args.block_size > tokenizer.model_max_length: ...
\*     block_size = min(block_size, tokenizer.model_max_length)
\* No cell defines args: the else branch raises a NameError at its first
\* line, after block_size was assigned the model_max_length.
BlockSizeSelection(max_length) ==
    IF max_length > BlockSizeCap
    THEN [raised |-> FALSE, block_size |-> BlockSizeCap]
    ELSE [raised |-> TRUE, block_size |-> max_length]

\* tokenized_datasets = raw_datasets.map(tokenize_function, batched=True, ...)
\* the selection of block_size
\* lm_datasets = tokenized_datasets.map(group_texts, batched=True, ...):
\* group_texts raises on a batch shorter than block_size (short_batch, a
\* fact of the data)
Tr_Tokenize ==
    /\ InTrain("mixtral_train", "tokenize")
    /\ \E tokenized \in BOOLEAN, short_batch \in BOOLEAN :
         LET selection == BlockSizeSelection(model_max_length)
             t1 == Append(trace, Call("map_tokenize_function", NoName, NoUri,
                                      << >>, tokenized))
         IN
         IF ~tokenized
         THEN /\ block_size' = block_size
              /\ trace' = t1
              /\ Raise
         ELSE /\ block_size' = selection.block_size
              /\ IF selection.raised
                 THEN /\ trace' = t1
                      /\ Raise
                 ELSE /\ trace' = Append(t1, Call("map_group_texts", NoName,
                                                  NoUri, << >>, ~short_batch))
                      /\ Finish(~short_batch)
    /\ UNCHANGED << configVars, hub, raw_datasets, model_max_length,
                    expert_parallel_degree, hybrid_shard_degree,
                    activation_loading_horizon, instance_count,
                    processes_per_host, smp_estimator, pt_estimator, job,
                    model_archive_path >>

\* if hyperparameters["do_train"]:
\*     lm_datasets["train"].to_json("./training.json")
\*     training_dataset_location = f"s3://{default_bucket}/dataset/train/"
\*     os.system(f"aws s3 cp ./training.json {training_dataset_location}")
\* else:
\*     training_dataset_location = None
\* and the same for do_eval and the validation set.  os.system raises
\* nothing when the copy fails.
DatasetLocation(flag, bucket, split) ==
    IF flag THEN Location(S3Uri(bucket, "dataset", split)) ELSE None

Tr_PrepareDatasets ==
    /\ At("mixtral_train", "prepare_datasets")
    /\ LET do_train == hyperparameters["do_train"]
           do_eval == hyperparameters["do_eval"]
           train_object == S3Uri(default_bucket, "dataset/train", "training.json")
           eval_object ==
               S3Uri(default_bucket, "dataset/validation", "validation.json")
           cp_train == Call("s3_cp", NoName, train_object, << >>, TRUE)
           cp_eval == Call("s3_cp", NoName, eval_object, << >>, TRUE)
           t1 == IF do_train THEN Append(trace, cp_train) ELSE trace
       IN
       /\ training_dataset_location' =
            DatasetLocation(do_train, default_bucket, "train/")
       /\ validation_dataset_location' =
            DatasetLocation(do_eval, default_bucket, "validation/")
       /\ \E copied_train \in BOOLEAN, copied_eval \in BOOLEAN :
            LET s1 == IF do_train /\ copied_train
                      THEN Uploaded(s3, train_object, NoArchive) ELSE s3
            IN  s3' = IF do_eval /\ copied_eval
                      THEN Uploaded(s1, eval_object, NoArchive) ELSE s1
       /\ trace' = IF do_eval THEN Append(t1, cp_eval) ELSE t1
    /\ Advance
    /\ UNCHANGED << default_bucket, props_file, archive_file, image_uri,
                    s3_code_prefix, code_artifact, endpoint_name, model,
                    predictor, s3_new_model_path, endpoints,
                    endpoint_configs, sm_models, groupVars >>
    /\ UNCHANGED << coreTrainVars, model_type, model_size, hyperparameters,
                    data_channels, exception >>

\* sagemaker.inputs.TrainingInput(s3_data, distribution="FullyReplicated",
\*                                s3_data_type="S3Prefix")
TrainingInput(s3_data) ==
    [s3_data |-> s3_data, distribution |-> "FullyReplicated",
     s3_data_type |-> "S3Prefix"]

\* if s3_train_bucket != None: data_channels = {"train": TrainingInput(...)}
\* else: data_channels = {"train": mock_data}
\* if s3_test_bucket != None: data_channels["test"] = TrainingInput(...)
\* else: data_channels["test"] = mock_data
\* No cell defines mock_data: either else branch raises a NameError, the
\* second one with data_channels = {"train": train} already assigned.
DataChannelsCell(s3_train_bucket, s3_test_bucket, channels) ==
    IF s3_train_bucket.is_none
    THEN [raised |-> TRUE, data_channels |-> channels]
    ELSE LET train == TrainingInput(s3_train_bucket.uri)
             with_train == [k \in {"train"} |-> train]
         IN  IF s3_test_bucket.is_none
             THEN [raised |-> TRUE, data_channels |-> with_train]
             ELSE [raised |-> FALSE,
                   data_channels |->
                       Put(with_train, "test",
                           TrainingInput(s3_test_bucket.uri))]

\* %store / %store -r of the two locations (in one run they give back the
\* values stored), s3_train_bucket = training_dataset_location,
\* s3_test_bucket = validation_dataset_location, and the data-channel cell
Tr_DataChannels ==
    /\ InTrain("mixtral_train", "data_channels")
    /\ LET cell == DataChannelsCell(training_dataset_location,
                                    validation_dataset_location,
                                    data_channels)
       IN  /\ data_channels' = cell.data_channels
           /\ exception' = IF cell.raised THEN "NameError" ELSE exception
           /\ Finish(~cell.raised)
    /\ trace' = trace
    /\ UNCHANGED << coreTrainVars, model_type, model_size, hyperparameters,
                    training_dataset_location, validation_dataset_location >>

\* expert_parallel_degree = 2; hybrid_shard_degree = 32;
\* activation_loading_horizon = 2; ...
Tr_Degrees ==
    /\ InTrain("mixtral_train", "degrees")
    /\ expert_parallel_degree' = ExpertParallelDegree
    /\ hybrid_shard_degree' = HybridShardDegree
    /\ activation_loading_horizon' = ActivationLoadingHorizon
    /\ trace' = trace
    /\ Advance
    /\ UNCHANGED << configVars, hub, raw_datasets, model_max_length, block_size,
                    instance_count, processes_per_host, smp_estimator,
                    pt_estimator, job, model_archive_path >>

\* save_steps = 10; max_steps = 15, of the cell of the degrees
SaveSteps == 10
MaxSteps == 15

\* hyperparameters = {"activation_checkpointing": 1, ...}: a new dictionary,
\* the one of the data-loading cell is dropped.  Numbers that are not
\* integers are written as their text.
TrainingHyperparameters(chosen_type) ==
    [activation_checkpointing |-> 1,
     auto_wrap_policy |-> "transformer_auto_wrap_policy",
     backward_fetch_policy |-> "backward_pre",
     beta1 |-> "0.9",
     beta2 |-> "0.95",
     bf16 |-> 1,
     fp8 |-> 0,
     checkpoint_dir |-> "/opt/ml/checkpoints",
     checkpoint_freq |-> SaveSteps,
     clean_cache |-> 0,
     delayed_param |-> 1,
     enable_memory_profiling |-> 0,
     epochs |-> 100,
     fast_validation |-> 0,
     forward_prefetch |-> 1,
     limit_all_gathers |-> 1,
     logging_freq |-> 1,
     lr |-> "0.0001",
     lr_decay_iters |-> 47683,
     lr_decay_style |-> "cosine",
     max_steps |-> MaxSteps,
     min_lr |-> "1e-05",
     model_type |-> chosen_type,
     num_kept_checkpoints |-> 2,
     plateau |-> "0.0",
     seed |-> 12345,
     sharding_strategy |-> "hybrid_shard",
     train_batch_size |-> 2,
     use_smp_implementation |-> 1,
     val_batch_size |-> 2,
     validation_freq |-> SaveSteps,
     vocab_size |-> 50257,
     warmup |-> "0.0032",
     weight_decay |-> "0.2",
     zipped_data |-> 0,
     moe |-> 1,
     moe_load_balancing |-> "sinkhorn",
     moe_all_to_all_dispatcher |-> 1]

Tr_Hyperparameters ==
    /\ InTrain("mixtral_train", "hyperparameters")
    /\ hyperparameters' = TrainingHyperparameters(model_type)
    /\ trace' = trace
    /\ Advance
    /\ UNCHANGED << coreTrainVars, model_type, model_size,
                    training_dataset_location, validation_dataset_location,
                    data_channels, exception >>

\* a size written as a string ("small") or as a number (7)
SizeStr(text) == [is_int |-> FALSE, text |-> text]
SizeInt(text) == [is_int |-> TRUE, text |-> text]

\* the sizes the user may set model_size to; the cell ships with "small"
ModelSizes == {SizeStr("small"), SizeStr("large"), SizeStr("medium"), SizeInt("7")}

\* model_configs = {"mixtral": {"small": {...}, "large": {...}}}
ModelConfigs ==
    [mixtral |->
        [small |-> [hidden_width |-> 2048, max_context_width |-> 2048,
                    num_heads |-> 16, num_layers |-> 8,
                    num_local_experts |-> 4],
         large |-> [hidden_width |-> 4096, max_context_width |-> 2048,
                    num_heads |-> 32, num_layers |-> 32,
                    num_local_experts |-> 8]]]

\* model_configs.get(chosen_type, {}).get(size): the entry, or None
HasModelParams(chosen_type, size) ==
    /\ chosen_type \in DOMAIN ModelConfigs
    /\ ~size.is_int
    /\ size.text \in DOMAIN ModelConfigs[chosen_type]

\* model_params = model_configs.get(model_type, {}).get(model_size)
\* if model_params is None:
\*     raise RuntimeError(f"... ({model_type}, {model_size:02d}B).")
\* hyperparameters.update(model_params)
\* The message is formatted before RuntimeError is made: the format code d
\* on a string raises ValueError, on a number it gives the text and
\* RuntimeError is raised.
ModelConfigCell(chosen_type, size, params) ==
    IF HasModelParams(chosen_type, size)
    THEN [exception |-> "",
          hyperparameters |-> Update(params, ModelConfigs[chosen_type][size.text])]
    ELSE [exception |-> IF size.is_int THEN "RuntimeError" ELSE "ValueError",
          hyperparameters |-> params]

Tr_ModelConfig ==
    /\ InTrain("mixtral_train", "model_config")
    /\ \E size \in ModelSizes :
         LET cell == ModelConfigCell(model_type, size, hyperparameters) IN
         /\ model_size' = size
         /\ hyperparameters' = cell.hyperparameters
         /\ exception' = IF cell.exception = "" THEN exception ELSE cell.exception
         /\ Finish(cell.exception = "")
    /\ trace' = trace
    /\ UNCHANGED << coreTrainVars, model_type, training_dataset_location,
                    validation_dataset_location, data_channels >>

\* instance_type = "ml.p4d.24xlarge"; instance_count = 8; processes_per_host = 8
Tr_Instances ==
    /\ InTrain("mixtral_train", "instances")
    /\ instance_count' = InstanceCount
    /\ processes_per_host' = ProcessesPerHost
    /\ trace' = trace
    /\ Advance
    /\ UNCHANGED << configVars, hub, raw_datasets, model_max_length, block_size,
                    expert_parallel_degree, hybrid_shard_degree,
                    activation_loading_horizon, smp_estimator, pt_estimator,
                    job, model_archive_path >>

\* smp_estimator = PyTorch(..., instance_count=instance_count,
\*     distribution={... "parameters": {"activation_loading_horizon": ...,
\*     "hybrid_shard_degree": ..., "expert_parallel_degree": ...}})
Estimator ==
    [defined |-> TRUE,
     instance_count |-> instance_count,
     parameters |->
        [activation_loading_horizon |-> activation_loading_horizon,
         hybrid_shard_degree |-> hybrid_shard_degree,
         expert_parallel_degree |-> expert_parallel_degree]]

NoEstimator ==
    [defined |-> FALSE,
     instance_count |-> -1,
     parameters |->
        [activation_loading_horizon |-> -1,
         hybrid_shard_degree |-> -1,
         expert_parallel_degree |-> -1]]

Tr_Estimator ==
    /\ InTrain("mixtral_train", "estimator")
    /\ smp_estimator' = Estimator
    /\ trace' = trace
    /\ Advance
    /\ UNCHANGED << configVars, hub, raw_datasets, model_max_length, block_size,
                    expert_parallel_degree, hybrid_shard_degree,
                    activation_loading_horizon, instance_count,
                    processes_per_host, pt_estimator, job, model_archive_path >>

\* the fit cell of either training notebook
FitCell ==
    \E outcome \in FitOutcomes :
        /\ job' = JobAfterFit(outcome)
        /\ trace' = Append(trace, Call("fit", NoName, NoUri, << >>, FitReturns(outcome)))
        /\ Finish(FitReturns(outcome))

\* smp_estimator.fit(inputs=data_channels)
Tr_Fit ==
    /\ InTrain("mixtral_train", "fit")
    /\ smp_estimator.defined
    /\ FitCell
    /\ UNCHANGED << configVars, hub, raw_datasets, model_max_length, block_size,
                    expert_parallel_degree, hybrid_shard_degree,
                    activation_loading_horizon, instance_count,
                    processes_per_host, smp_estimator, pt_estimator,
                    model_archive_path >>

MixtralTrainNext ==
    \/ Tr_Setup \/ Tr_ModelType \/ Tr_LoadData \/ Tr_Split \/ Tr_Tokenizer
    \/ Tr_Tokenize \/ Tr_PrepareDatasets \/ Tr_DataChannels \/ Tr_Degrees
    \/ Tr_Hyperparameters \/ Tr_ModelConfig \/ Tr_Instances \/ Tr_Estimator
    \/ Tr_Fit

----------------------------------------------------------------------------
(* The TinyLlama fine-tuning notebook *)

Ft_Setup ==
    /\ InTrain("tinyllama_finetune", "setup")
    /\ \E ok \in BOOLEAN :
         /\ trace' = Append(trace, Call("Session", NoName, NoUri, << >>, ok))
         /\ Finish(ok)
    /\ UNCHANGED trainVars

\* pt_estimator = PyTorch(entry_point="run_clm.py", instance_count=1, ...)
Ft_Estimator ==
    /\ InTrain("tinyllama_finetune", "estimator")
    /\ \E ok \in BOOLEAN :
         /\ pt_estimator' = IF ok THEN TRUE ELSE pt_estimator
         /\ trace' = Append(trace, Call("get_execution_role", NoName, NoUri, << >>, ok))
         /\ Finish(ok)
    /\ UNCHANGED << configVars, hub, raw_datasets, model_max_length, block_size,
                    expert_parallel_degree, hybrid_shard_degree,
                    activation_loading_horizon, instance_count,
                    processes_per_host, smp_estimator, job, model_archive_path >>

\* pt_estimator.fit()
Ft_Fit ==
    /\ InTrain("tinyllama_finetune", "fit")
    /\ pt_estimator
    /\ FitCell
    /\ UNCHANGED << configVars, hub, raw_datasets, model_max_length, block_size,
                    expert_parallel_degree, hybrid_shard_degree,
                    activation_loading_horizon, instance_count,
                    processes_per_host, smp_estimator, pt_estimator,
                    model_archive_path >>

\* model_archive_path =
\*     pt_estimator.jobs[-1].describe()['ModelArtifacts']['S3ModelArtifacts']
\* The cell reads the description of the job whatever its status is.
Ft_ModelArchivePath ==
    /\ InTrain("tinyllama_finetune", "model_archive_path")
    /\ job # "none"
    /\ \E ok \in BOOLEAN :
         /\ model_archive_path' =
              IF ok THEN [read |-> TRUE, job_status |-> job]
              ELSE model_archive_path
         /\ trace' = Append(trace, Call("describe", NoName, NoUri, << >>, ok))
         /\ Finish(ok)
    /\ UNCHANGED << configVars, hub, raw_datasets, model_max_length, block_size,
                    expert_parallel_degree, hybrid_shard_degree,
                    activation_loading_horizon, instance_count,
                    processes_per_host, smp_estimator, pt_estimator, job >>

TinyLlamaFinetuneNext ==
    Ft_Setup \/ Ft_Estimator \/ Ft_Fit \/ Ft_ModelArchivePath

----------------------------------------------------------------------------
(* group_texts, the function the training notebook maps over the tokenized  *)
(* datasets.  A batch has the columns the tokenizer returns, a list of      *)
(* token lists each.                                                        *)

\* sum(lists, []): the lists concatenated
RECURSIVE Concatenate(_)
Concatenate(lists) ==
    IF lists = << >> THEN << >>
    ELSE Head(lists) \o Concatenate(Tail(lists))

\* t[i : j], Python's slice, with i and j counted from 0 and clipped to t
Slice(t, i, j) ==
    LET hi == IF j < Len(t) THEN j ELSE Len(t) IN
    IF i >= hi THEN << >> ELSE SubSeq(t, i + 1, hi)

\* chunks of the whole of t, the last one shorter when size does not divide
ChunksKeepRemainder(t, total_length, size) ==
    [n \in 1..((Len(t) + size - 1) \div size) |->
        Slice(t, (n - 1) * size, (n - 1) * size + size)]

\* [t[i : i + size] for i in range(0, total_length, size)]
Chunks(t, total_length, size) ==
    [n \in 1..((total_length + size - 1) \div size) |->
        Slice(t, (n - 1) * size, (n - 1) * size + size)]

\* list(examples.keys())[0]: the tokenizer returns input_ids first
FirstKey == "input_ids"

\* def group_texts(examples), with the global block_size as a parameter
group_texts(batch, size) ==
    LET concatenated_examples == [k \in DOMAIN batch |-> Concatenate(batch[k])]
        total_length == Len(concatenated_examples[FirstKey])
    IN  IF total_length >= size
        THEN LET grouped ==
                   [k \in DOMAIN batch |->
                       Chunks(concatenated_examples[k],
                              (total_length \div size) * size, size)]
             IN  [raised |-> FALSE,
                  value |-> Put(grouped, "labels", grouped["input_ids"])]
        \* result is bound only in the branch above: UnboundLocalError
        ELSE [raised |-> TRUE, value |-> << >>]

NotCalled == [called |-> FALSE, raised |-> FALSE, value |-> << >>]

\* the batch the tokenizer makes of examples with the given numbers of
\* tokens: every token of input_ids is written as a different number, the
\* attention mask is 1 for every token
Tokenized(lengths) ==
    [k \in {"input_ids", "attention_mask"} |->
        [e \in 1..Len(lengths) |->
            [j \in 1..lengths[e] |->
                IF k = "input_ids" THEN e * (MaxTokens + 1) + j ELSE 1]]]

Batches ==
    { Tokenized(lengths) :
        lengths \in UNION { [1..n -> 0..MaxTokens] : n \in 0..MaxExamples } }

\* tokenized_datasets.map(group_texts, batched=True) calls it on a batch
CallGroupTexts ==
    /\ ~result.called
    /\ block_size >= 1
    /\ LET r == group_texts(examples, block_size) IN
       result' = [called |-> TRUE, raised |-> r.raised, value |-> r.value]
    /\ UNCHANGED << nb, pc, status, deployVars, trainVars, trace, examples >>

----------------------------------------------------------------------------
vars == << nb, pc, status, deployVars, trainVars, trace, groupVars >>

\* a fresh kernel and account: nothing is defined, nothing exists
Fresh ==
    /\ props_file = NoFile
    /\ archive_file = NoArchive
    /\ s3 = {}
    /\ image_uri = ""
    /\ s3_code_prefix = ""
    /\ code_artifact = NoUri
    /\ endpoint_name = NoName
    /\ model = NoModel
    /\ predictor = NoName
    /\ s3_new_model_path = << >>
    /\ endpoints = {}
    /\ endpoint_configs = {}
    /\ sm_models = {}
    /\ raw_datasets = << >>
    /\ model_max_length = -1
    /\ expert_parallel_degree = -1
    /\ hybrid_shard_degree = -1
    /\ activation_loading_horizon = -1
    /\ instance_count = -1
    /\ processes_per_host = -1
    /\ smp_estimator = NoEstimator
    /\ pt_estimator = FALSE
    /\ job = "none"
    /\ model_archive_path = [read |-> FALSE, job_status |-> "none"]
    /\ model_type = ""
    /\ model_size = NoSize
    /\ hyperparameters = << >>
    /\ training_dataset_location = NoLocation
    /\ validation_dataset_location = NoLocation
    /\ data_channels = << >>
    /\ exception = ""
    /\ trace = << >>

\* a linear run of one of the notebooks
Init ==
    /\ nb \in Notebooks
    /\ pc = 1
    /\ status = "running"
    /\ default_bucket \in Buckets
    /\ hub \in HubDatasets
    /\ block_size = -1
    /\ examples = << >>
    /\ result = NotCalled
    /\ Fresh

Next ==
    \/ MixtralDeployNext
    \/ TinyLlamaInferenceNext
    \/ MixtralTrainNext
    \/ TinyLlamaFinetuneNext
    \/ TrainingJobEnds

Spec == Init /\ [][Next]_vars

----------------------------------------------------------------------------
(* group_texts on its own: every batch and block_size within the bounds *)

InitGroupTexts ==
    /\ nb = "mixtral_train"
    /\ pc = 1
    /\ status = "done"
    /\ default_bucket = "sagemaker-bucket-a"
    /\ hub = [split \in {"train", "validation", "test"} |-> 0]
    /\ block_size \in 1..MaxBlockSize
    /\ examples \in Batches
    /\ result = NotCalled
    /\ Fresh

NextGroupTexts == CallGroupTexts

SpecGroupTexts == InitGroupTexts /\ [][NextGroupTexts]_vars

----------------------------------------------------------------------------
(* The packaging cell run again.  In a notebook a cell can be run any       *)
(* number of times: here the cells that write serving.properties, bundle   *)
(* it and upload the archive are run in any order, the packaging cell only *)
(* once the file has been written.                                          *)

\* the number of calls after which no further cell is run
MaxRuns == 4

DeploymentNotebooks == {"mixtral_deploy", "tinyllama_inference"}

\* the serving.properties files a notebook writes
WrittenBy(n) ==
    IF n = "mixtral_deploy"
    THEN {MixtralServingProperties}
    ELSE {file_content(NewModelPath(default_bucket)),
          TinyLlamaOriginalServingProperties}

\* tar czvf mymodel.tar.gz mymodel/, tar czvf mycode.tar.gz mycode/
TarName(n) == IF n = "mixtral_deploy" THEN "mymodel.tar.gz" ELSE "mycode.tar.gz"

\* the key prefixes a notebook uploads its archive under
UploadPrefixes(n) ==
    IF n = "mixtral_deploy"
    THEN {Mx_s3_code_prefix}
    ELSE {"large-model-lmi/code", "tiny_llama/large-model-lmi/code"}

Re_WriteProps ==
    /\ Len(trace) < MaxRuns
    /\ \E lines \in WrittenBy(nb) : WritePropsCell(lines)
    /\ UNCHANGED << trainVars, groupVars >>

Re_Package ==
    /\ Len(trace) < MaxRuns
    /\ \E w \in 1..Len(trace) : trace[w].op = "write"
    /\ PackageCell(TarName(nb))
    /\ UNCHANGED << trainVars, groupVars >>

Re_Upload ==
    /\ Len(trace) < MaxRuns
    /\ archive_file.exists
    /\ \E prefix \in UploadPrefixes(nb) :
         UploadCell(prefix, TarName(nb), nb = "mixtral_deploy")
    /\ UNCHANGED << trainVars, groupVars >>

InitPackaging ==
    /\ nb \in DeploymentNotebooks
    /\ pc = 1
    /\ status = "running"
    /\ default_bucket \in Buckets
    /\ hub = [split \in {"train", "validation", "test"} |-> 0]
    /\ block_size = -1
    /\ examples = << >>
    /\ result = NotCalled
    /\ Fresh

NextPackaging == Re_WriteProps \/ Re_Package \/ Re_Upload

SpecPackaging == InitPackaging /\ [][NextPackaging]_vars

----------------------------------------------------------------------------
(* The claims *)

\* the places in trace of the calls named op, among the places in window
Ops(window, op) == { j \in window : trace[j].op = op }

Calls(op) == Ops(1..Len(trace), op)

\* the last place before i of a call named op, 0 when there is none
LastBefore(i, op) ==
    IF Ops(1..(i - 1), op) = {} THEN 0
    ELSE CHOOSE j \in Ops(1..(i - 1), op) : \A k \in Ops(1..(i - 1), op) : k <= j

\* the steps of one deployment that ends with the deploy call at place i:
\* since the deploy call before it, serving.properties is written once, then
\* bundled once, then uploaded once, then the Model is made once of the URI
\* the upload returned, and deploy is called on that URI; the object at the
\* URI is the archive holding the serving.properties written
DeploymentInOrder(i) ==
    LET window == (LastBefore(i, "deploy") + 1)..(i - 1)
        W == Ops(window, "write")
        T == Ops(window, "tar")
        U == Ops(window, "upload_data")
        M == Ops(window, "Model")
    IN  /\ Cardinality(W) = 1 /\ Cardinality(T) = 1
        /\ Cardinality(U) = 1 /\ Cardinality(M) = 1
        /\ \E w \in W, t \in T, u \in U, m \in M :
             /\ w < t /\ t < u /\ u < m
             /\ trace[t].lines = trace[w].lines
             /\ trace[u].ok
             /\ trace[u].lines = trace[w].lines
             /\ trace[m].uri = trace[u].uri
             /\ trace[i].uri = trace[u].uri
             /\ ObjectAt(s3, trace[i].uri).has_props
             /\ ObjectAt(s3, trace[i].uri).lines = trace[w].lines

\* C1: in both deployment notebooks every deploy call comes after, in this
\* order and each once, the write of serving.properties, its bundling into
\* the archive, the upload of the archive and the creation of the Model on
\* the URI the upload returned; deploy is never called before the upload of
\* the archive holding the current serving.properties has returned.
C1_DeployAfterUpload ==
    \A i \in Calls("deploy") : DeploymentInOrder(i)

\* both deployments of the TinyLlama notebook were made
C1_Witness ==
    /\ nb = "tinyllama_inference"
    /\ Cardinality({ i \in Calls("deploy") : trace[i].ok }) = 2

\* C2: a call that raised is the last call of the run: it is not issued
\* again, nothing is called to make up for it, no later call is issued, and
\* the run has stopped.
C2_NoCallAfterRaise ==
    \A i \in 1..Len(trace) :
        ~trace[i].ok => i = Len(trace) /\ status = "raised"

\* deploy raised with the endpoint created, and the run stopped there
C2_Witness ==
    /\ status = "raised"
    /\ trace # << >>
    /\ trace[Len(trace)].op = "deploy"
    /\ ~trace[Len(trace)].ok
    /\ trace[Len(trace)].ep \in endpoints

\* the number of lines of a serving.properties file whose key is in keys
KeyCount(lines, keys) ==
    Cardinality({ i \in 1..Len(lines) : lines[i][1] \in keys })

RequiredKeysOnce(lines) ==
    /\ KeyCount(lines, {"engine"}) = 1
    /\ KeyCount(lines, {"option.model_id"}) = 1
    /\ KeyCount(lines, {"option.tensor_parallel_degree"}) = 1
    /\ KeyCount(lines, {"option.batch_size", "option.max_rolling_batch_size"}) = 1

\* C3: every serving.properties file a notebook writes holds, each exactly
\* once, the keys engine, option.model_id, option.tensor_parallel_degree and
\* a batch size (option.batch_size or option.max_rolling_batch_size).
C3_RequiredKeys ==
    /\ props_file.exists => RequiredKeysOnce(props_file.lines)
    /\ \A i \in Calls("write") : RequiredKeysOnce(trace[i].lines)

\* both files of the TinyLlama notebook were written, the second is on disk
C3_Witness ==
    /\ nb = "tinyllama_inference"
    /\ Cardinality(Calls("write")) = 2
    /\ props_file.exists

\* C4: with world_size = processes_per_host * instance_count, the degrees the
\* Mixtral training notebook passes to the estimator are integers in their
\* ranges: 1 <= expert_parallel_degree <= world_size and
\* 0 <= hybrid_shard_degree <= world_size \div expert_parallel_degree.
C4_DegreesInRange ==
    smp_estimator.defined =>
        LET world_size == processes_per_host * smp_estimator.instance_count
            epd == smp_estimator.parameters.expert_parallel_degree
            hsd == smp_estimator.parameters.hybrid_shard_degree
        IN  /\ epd \in Int /\ hsd \in Int
            /\ 1 <= epd /\ epd <= world_size
            /\ 0 <= hsd /\ hsd <= world_size \div epd

\* the estimator was made with the degrees and fit() was called on it
C4_Witness ==
    /\ nb = "mixtral_train"
    /\ smp_estimator.defined
    /\ Calls("fit") # {}

\* C5: after a complete run of a deployment notebook, clean-up cells
\* included, no endpoint a deploy call of the run created still exists.
C5_NoEndpointLeft ==
    (nb \in {"mixtral_deploy", "tinyllama_inference"} /\ status = "done") =>
        \A i \in Calls("deploy") : trace[i].ep \notin endpoints

\* the deploy call a predict call follows: the last one before it
ServedBy(i) == LastBefore(i, "deploy")

\* C6: every predict call follows a deploy call that returned, goes to the
\* endpoint name of the most recent deploy call, and no delete_endpoint of
\* that endpoint was called between that deploy and the predict.
C6_PredictWhileDeployed ==
    \A i \in Calls("predict") :
        LET d == ServedBy(i) IN
        /\ d # 0
        /\ trace[d].ok
        /\ trace[i].ep = trace[d].ep
        /\ \A j \in Ops((d + 1)..(i - 1), "delete_endpoint") :
               trace[j].ep # trace[i].ep
        /\ trace[i].ok => \A j \in Ops(1..(i - 1), "delete_endpoint") :
               trace[j].ep # trace[i].ep

\* the second endpoint of the TinyLlama notebook answered a call, with the
\* first deployment already cleaned up
C6_Witness ==
    /\ nb = "tinyllama_inference"
    /\ \E i \in Calls("predict") :
         /\ trace[i].ok
         /\ Cardinality(Ops(1..(i - 1), "deploy")) = 2
         /\ Ops(1..(i - 1), "delete_model") # {}

\* C7: model_archive_path is read from the description of the training job
\* only once the job pt_estimator.fit() started has reached Completed.
C7_ReadAfterCompleted ==
    model_archive_path.read => model_archive_path.job_status = "Completed"

\* the column of the batch an output column is made of: labels is a copy of
\* the chunks of input_ids
ColumnOf(k) == IF k = "labels" THEN "input_ids" ELSE k

C9_UploadPrefix ==
    nb = "mixtral_deploy" =>
        \A i \in Calls("upload_data") :
            /\ trace[i].uri.bucket = default_bucket
            /\ trace[i].uri.key_prefix = "large-model-lmi/code"

\* the train split of the dataset is split in two: validation then train,
\* no example in both, none of the dataset's own validation split
PartitionOfTrain ==
    /\ raw_datasets["validation"] \o raw_datasets["train"] = HubSplit("train")
    /\ \A i \in 1..Len(raw_datasets["validation"]) :
         \A j \in 1..Len(raw_datasets["train"]) :
             raw_datasets["validation"][i] # raw_datasets["train"][j]
    /\ \A k \in DOMAIN raw_datasets \ {"test"} :
         \A i \in 1..Len(raw_datasets[k]) : raw_datasets[k][i][1] = "train"

\* validation holds 10% of the train split, to the closest whole example
TenPercentOfTrain ==
    2 * (100 * Len(raw_datasets["validation"])
           - ValidationPercentage * hub["train"]) \in -100..100

\* C10 as stated: after the two data-loading cells raw_datasets holds
\* exactly a train and a validation split, which partition the dataset's
\* train split, validation being its first 10%.
C10_ExactlyTrainAndValidation ==
    Ran("mixtral_train", "split") =>
        /\ DOMAIN raw_datasets = {"train", "validation"}
        /\ PartitionOfTrain
        /\ TenPercentOfTrain

\* C10: after the two data-loading cells raw_datasets holds a train and a
\* validation split that partition the dataset's train split: validation is
\* its first 10% rounded to the closest whole example, train is the rest, no
\* example is in both and the dataset's own validation split is not used;
\* the dataset's test split stays in raw_datasets as loaded.
C10_TrainValidationAndTest ==
    Ran("mixtral_train", "split") =>
        /\ DOMAIN raw_datasets = {"train", "validation", "test"}
        /\ PartitionOfTrain
        /\ TenPercentOfTrain
        /\ raw_datasets["test"] = HubSplit("test")

\* a train split of 15 examples: 1.5 examples are rounded to 2 of validation
C10_Witness ==
    /\ Ran("mixtral_train", "split")
    /\ hub["train"] = 15
    /\ Len(raw_datasets["validation"]) = 2
    /\ Len(raw_datasets["train"]) = 13

\* the tokenize cell of the Mixtral training notebook came to its selection
\* of block_size: the tokenizer was loaded and the datasets were tokenized
SelectionReached ==
    /\ nb = "mixtral_train"
    /\ Calls("map_tokenize_function") # {}
    /\ \A i \in Calls("map_tokenize_function") : trace[i].ok

\* the run stopped in the tokenize cell before it called map(group_texts)
SelectionFailed ==
    /\ SelectionReached
    /\ pc = CellIndex("mixtral_train", "tokenize")
    /\ status = "raised"
    /\ Calls("map_group_texts") = {}

\* C11: for every tokenizer.model_max_length the selection of block_size in
\* the tokenize cell finishes without error and leaves
\* block_size = min(tokenizer.model_max_length, 2048).
C11_BlockSizeSelected ==
    SelectionReached =>
        /\ ~SelectionFailed
        /\ block_size = IF model_max_length < BlockSizeCap
                        THEN model_max_length ELSE BlockSizeCap

\* C12: group_texts returns a result with a labels column for every batch,
\* a batch whose concatenated length is below block_size included: it never
\* fails on a short batch.
C12_LabelsForEveryBatch ==
    result.called =>
        /\ ~result.raised
        /\ "labels" \in DOMAIN result.value

\* the run stopped in cell c of notebook n: the cell raised
RaisedIn(n, c) == nb = n /\ pc = CellIndex(n, c) /\ status = "raised"

\* C13: for every combination of do_train and do_eval the data-channel cell
\* finishes, with data_channels holding a "train" and a "test" entry: the
\* S3 TrainingInput of the uploaded location when the flag is set, the
\* fallback channel when the location is None.
C13_DataChannels ==
    /\ ~RaisedIn("mixtral_train", "data_channels")
    /\ Ran("mixtral_train", "data_channels") =>
         /\ DOMAIN data_channels = {"train", "test"}
         /\ ~training_dataset_location.is_none =>
              data_channels["train"] =
                  TrainingInput(training_dataset_location.uri)
         /\ ~validation_dataset_location.is_none =>
              data_channels["test"] =
                  TrainingInput(validation_dataset_location.uri)

\* C14: in the model-config cell, without an entry for (model_type,
\* model_size) a RuntimeError is raised and hyperparameters is left as it
\* was; with an entry, hyperparameters gains exactly the five keys of the
\* entry and every key it held keeps its value.
C14_ModelConfig ==
    LET before == TrainingHyperparameters(model_type) IN
    /\ RaisedIn("mixtral_train", "model_config") =>
         /\ ~HasModelParams(model_type, model_size)
         /\ exception = "RuntimeError"
         /\ hyperparameters = before
    /\ Ran("mixtral_train", "model_config") =>
         /\ HasModelParams(model_type, model_size)
         /\ LET entry == ModelConfigs[model_type][model_size.text] IN
            /\ Cardinality(DOMAIN entry) = 5
            /\ DOMAIN entry \cap DOMAIN before = {}
            /\ DOMAIN hyperparameters = DOMAIN before \cup DOMAIN entry
            /\ \A k \in DOMAIN entry : hyperparameters[k] = entry[k]
            /\ \A k \in DOMAIN before : hyperparameters[k] = before[k]

\* the value of option.model_id in a serving.properties file
ModelId(lines) ==
    lines[CHOOSE i \in 1..Len(lines) : lines[i][1] = "option.model_id"][2]

\* the copy of the model artifacts to the place path was issued before the
\* call at place i
CopiedBefore(i, path) ==
    \E c \in Ops(1..(i - 1), "s3_cp") : S3Path(trace[c].uri) = path

\* C15: in the TinyLlama inference notebook option.model_id of the first
\* serving.properties is s3_new_model_path, the destination of the S3 copy
\* of the fine-tuned model artifacts, and that copy is issued before the
\* file is written and before deploy is called.
C15_ModelIdIsCopyDestination ==
    nb = "tinyllama_inference" =>
        /\ \A w \in Calls("write") :
             Ops(1..(w - 1), "write") = {} =>
                 /\ ModelId(trace[w].lines) = s3_new_model_path
                 /\ CopiedBefore(w, ModelId(trace[w].lines))
        /\ \A d \in Calls("deploy") : CopiedBefore(d, s3_new_model_path)

\* the first model of the TinyLlama notebook was deployed
C15_Witness ==
    /\ nb = "tinyllama_inference"
    /\ \E d \in Calls("deploy") :
         /\ trace[d].ok
         /\ Ops(1..(d - 1), "deploy") = {}
         /\ Calls("write") # {}

\* C16: the packaging cell is idempotent with respect to the archive: run a
\* second time, serving.properties not rewritten in between, it leaves an
\* archive with the content of the first run, so the archive on disk and
\* every archive uploaded contain serving.properties.
C16_PackagingIdempotent ==
    /\ \A i \in Calls("tar") : \A j \in Calls("tar") :
         (i < j /\ Ops((i + 1)..(j - 1), "write") = {}) =>
             trace[j].lines = trace[i].lines
    /\ archive_file.exists =>
         archive_file.has_props /\ archive_file.lines # << >>
    /\ \A o \in s3 : o.archive.exists => o.archive.has_props

====
